---- MODULE Spec2Model ----
(***************************************************************************)
(* SteamGraph: the incremental synchronisation of the Steam tag list and   *)
(* app catalogue into the local PostgreSQL store.                          *)
(*                                                                         *)
(*   jobs      syncWithSteam, syncSteamTags, syncSteamApps, getDataJson,   *)
(*             setDataJson                                                 *)
(*   steam     getSteamApps, getSteamAppDetails, getTagList                *)
(*   database  insertOrUpdateTags, insertOrUpdateApps                      *)
(*                                                                         *)
(* Every await of the code is a step of the model.  The remote API, the    *)
(* file system and the statements sent to the database answer              *)
(* nondeterministically from small sets of answers.  The locals of a       *)
(* function are reset when it returns.  pc is "rejected" when the promise  *)
(* of the pass was rejected and the process goes on, "exited" when the     *)
(* process has ended.                                                      *)
(***************************************************************************)
EXTENDS Integers, Sequences, FiniteSets, TLC

VARIABLES
    pc,          \* position of the running call
    caller,      \* who runs: "pass" (syncWithSteam), "details", "upsert" (direct calls)
    catalog,     \* the remote's catalogue: "short", "long" (more than one chunk), or
                 \* "live" (answers computed from the remote's state)
    remote,      \* the remote's state: when each of its apps was last modified
    passes,      \* number of passes started so far
    clock,       \* Date.now()
    dataJson,    \* content of data.json as JSON.parse reads it
    tags,        \* table tags:     tag_id -> name
    app,         \* table app:      app_id -> row
    app_tags,    \* table app_tags: <<app_id, tag_id>> -> weight
    data,        \* local `data` of syncSteamTags / syncSteamApps
    tagList,     \* local `tagList` of syncSteamTags
    appList,     \* local `appList` of syncSteamApps
    appDetails,  \* local `appDetails` of syncSteamApps, the batch of insertOrUpdateApps
    gsa,         \* locals of getSteamApps: lastTime, lastAppId, apps, time
    gsd,         \* locals of getSteamAppDetails: chunks, next chunk, apps
    tx,          \* the open transaction of insertOrUpdateApps
    log,         \* history of the running feed: requests sent, answers received
    snap,        \* history: persisted state when the pass / the feed / the call began
    nodes        \* what the last call of getNodes returned

vars == <<pc, caller, catalog, passes, clock, dataJson, tags, app, app_tags, data, tagList,
          appList, appDetails, gsa, gsd, tx, log, snap, nodes, remote>>

(***************************************************************************)
(* Bounds of the model.                                                    *)
(***************************************************************************)
MaxPasses == 2      \* passes (process starts) explored
MaxPages  == 2      \* page requests of one getSteamApps call
MaxIds    == 501    \* longest id list handed to getSteamAppDetails directly
FirstNow  == 1000   \* Date.now() of the first getSteamApps call
MaxUpdates == 2     \* modifications of apps by the live remote

(***************************************************************************)
(* Program constants.                                                      *)
(***************************************************************************)
ChunkSize == 250    \* ids per GetItems request

\* JavaScript `undefined` (a key that is absent from an object); SQL NULL for text
Undef == 0 - 1
Null  == "NULL"

\* `if (x)` on a number or undefined
Truthy(x) == x # Undef /\ x # 0

(***************************************************************************)
(* Sequence helpers.                                                       *)
(***************************************************************************)
EmptyTable == [k \in {} |-> 0]

Map(s, Op(_)) == [i \in 1..Len(s) |-> Op(s[i])]

\* sequences are split in halves, so that long ones are handled in few levels
Concat(ss) ==
    LET F[r \in (1..(Len(ss) + 1)) \X (0..Len(ss))] ==
            IF r[1] > r[2] THEN <<>>
            ELSE IF r[1] = r[2] THEN ss[r[1]]
            ELSE LET m == (r[1] + r[2]) \div 2
                 IN  F[<<r[1], m>>] \o F[<<m + 1, r[2]>>]
    IN  F[<<1, Len(ss)>>]

FilterSeq(s, Keep(_)) ==
    Concat([i \in 1..Len(s) |-> IF Keep(s[i]) THEN <<s[i]>> ELSE <<>>])

FlatMap(s, Op(_)) == Concat([i \in 1..Len(s) |-> Op(s[i])])

Range(s) == {s[i] : i \in 1..Len(s)}
NoDuplicates(s) == Cardinality(Range(s)) = Len(s)

\* the function that maps Key(s[i]) to Val(s[i]); of two entries with the same
\* key the later one counts
Index(s, Key(_), Val(_)) ==
    LET F[r \in (1..(Len(s) + 1)) \X (0..Len(s))] ==
            IF r[1] > r[2] THEN EmptyTable
            ELSE IF r[1] = r[2] THEN Key(s[r[1]]) :> Val(s[r[1]])
            ELSE LET m == (r[1] + r[2]) \div 2
                 IN  F[<<m + 1, r[2]>>] @@ F[<<r[1], m>>]
    IN  F[<<1, Len(s)>>]
Min(a, b) == IF a < b THEN a ELSE b

(***************************************************************************)
(* data.json.  The file holds the JSON text of an object with the keys     *)
(* lastTagHash and lastAppTime; a key whose value is undefined is left out *)
(* by JSON.stringify and reads back as undefined.                          *)
(***************************************************************************)
Keys == {"lastTagHash", "lastAppTime"}

EmptyData == [k \in Keys |-> Undef]                       \* the object {}
NoFile    == [exists |-> FALSE, content |-> EmptyTable]

\* JSON.stringify(data): the keys with a defined value
Stringify(d) ==
    [exists |-> TRUE,
     content |-> [k \in {x \in Keys : d[x] # Undef} |-> d[k]]]

\* JSON.parse(file) of getDataJson, {} when the file cannot be read
Parse(f) ==
    IF f.exists
    THEN [k \in Keys |-> IF k \in DOMAIN f.content THEN f.content[k] ELSE Undef]
    ELSE EmptyData

\* getDataJson: the parsed file, or {} when reading or parsing throws
GetDataJson(readOk) == IF readOk THEN Parse(dataJson) ELSE EmptyData

\* setDataJson: the file after writeFile, unchanged when writeFile throws
\* (the error is caught and logged, nothing is returned to the caller)
SetDataJson(d, writeOk) == IF writeOk THEN Stringify(d) ELSE dataJson

\* what `await setDataJson(data)` gives its caller: the function has no return
\* statement and its catch block ends normally, so the promise resolves with
\* undefined whether or not writeFile threw
SetDataJsonSettles(writeOk) == [threw |-> FALSE, value |-> Undef]

\* console.error('Failed to write data.json:', error)
SetDataJsonLogs(writeOk) == ~writeOk

\* the record of one setDataJson call
Saved(feed, writeOk) ==
    [feed |-> feed, written |-> writeOk, seen |-> SetDataJsonSettles(writeOk),
     logged |-> SetDataJsonLogs(writeOk)]

(***************************************************************************)
(* The remote API: the answers it may give.                                *)
(***************************************************************************)
Fail == [ok |-> FALSE]        \* fetch rejects or response.ok is false

\* the failed answers a request may get; the live remote always answers, the
\* faults explored against it are crashes, failed statements, failed reads
\* and failed saves
FailedAnswers == IF catalog = "live" THEN {} ELSE {Fail}
FailedModes == IF catalog = "live" THEN {} ELSE {"fail"}

RawTag(id, name) == [tagid |-> id, name |-> name]

\* GetTagList: response.tags may be absent; response.version_hash
TagAnswer(has, l, h) == [ok |-> TRUE, hasTags |-> has, tags |-> l, version_hash |-> h]

\* the live remote's tag list has hash 77: a request that carries this hash
\* is answered with no tags, any other with the whole list
LiveTagAnswer(have_version_hash) ==
    IF have_version_hash = 77
    THEN TagAnswer(FALSE, <<>>, 77)
    ELSE TagAnswer(TRUE, <<RawTag(1, "Action"), RawTag(2, "RPG")>>, 77)

TagAnswers ==
    { TagAnswer(FALSE, <<>>, 77),
      TagAnswer(TRUE, <<>>, 78),
      TagAnswer(TRUE, <<RawTag(1, "Action"), RawTag(2, "RPG")>>, 77),
      TagAnswer(TRUE, <<RawTag(1, "Adventure")>>, 78),
      TagAnswer(TRUE, <<RawTag(1, "Action"), RawTag(1, "Indie")>>, 78) }

RawApp(id) == [appid |-> id, name |-> "Game"]

\* a listing long enough for getSteamAppDetails to need a second chunk
LongListing == [i \in 1..(ChunkSize + 1) |-> RawApp(i)]

\* GetAppList: response.apps may be absent; have_more_results, last_appid
Page(has, l, more, last) ==
    [ok |-> TRUE, hasApps |-> has, apps |-> l, have_more_results |-> more,
     last_appid |-> last]

ShortPages ==
    { Page(FALSE, <<>>, FALSE, Undef),
      Page(TRUE, <<>>, FALSE, Undef),
      Page(TRUE, <<>>, TRUE, 10),
      Page(TRUE, <<RawApp(10)>>, FALSE, 10),
      Page(TRUE, <<RawApp(10)>>, TRUE, 10),
      Page(TRUE, <<RawApp(20)>>, FALSE, 20) }

LongPages == { Page(TRUE, LongListing, FALSE, ChunkSize + 1) }

\* The live remote.  It holds two apps and the time each was last modified;
\* GetAppList answers a request as its parameters say: the apps modified at
\* or after if_modified_since whose id is greater than last_appid, in id
\* order, one per page here, with have_more_results and last_appid; when no
\* app qualifies the answer carries no apps field.  Times are those of the
\* clock that Date.now() reads.
LiveIds == {10, 20}

NoRemote == [mtime |-> [id \in LiveIds |-> 1], updates |-> 0, midFetch |-> FALSE]

LivePage(since, last) ==
    LET due == {id \in LiveIds : remote.mtime[id] >= since /\ id > last} IN
    IF due = {}
    THEN Page(FALSE, <<>>, FALSE, Undef)
    ELSE LET first == CHOOSE id \in due : \A other \in due : id <= other
         IN  Page(TRUE, <<RawApp(first)>>, due # {first}, first)

PageAnswers ==
    IF catalog = "long" THEN LongPages
    ELSE IF catalog = "live" THEN {LivePage(gsa.lastTime, gsa.lastAppId)}
    ELSE ShortPages

\* GetItems: what the remote sends for the ids of one request
DetailModes ==
    IF catalog = "live" THEN {"live"} ELSE {"v1", "v2", "restricted", "unknowntag"}

RawWeight(t, w) == [tagid |-> t, weight |-> w]

RawItem(id, name, desc, has, l, unavailable) ==
    [appid |-> id, name |-> name, full_description |-> desc, hasTags |-> has,
     tags |-> l, unvailable_for_country_restriction |-> unavailable]

StoreItems(chunk, mode) ==
    [i \in 1..Len(chunk) |->
        CASE mode = "v1" ->
                RawItem(chunk[i], "Game A", "first", TRUE, <<RawWeight(1, 5)>>, FALSE)
          [] mode = "v2" ->
                RawItem(chunk[i], "Game B", "second", TRUE,
                        <<RawWeight(1, 7), RawWeight(2, 3)>>, FALSE)
          [] mode = "restricted" ->
                \* every other item is restricted, the others carry no tags
                RawItem(chunk[i], "Game A", "first", FALSE, <<>>, i % 2 = 1)
          [] mode = "unknowntag" ->
                RawItem(chunk[i], "Game A", "first", TRUE, <<RawWeight(9, 1)>>, FALSE)
          [] mode = "live" ->
                \* the description stands for the app as of its last modification
                RawItem(chunk[i], "Game A", remote.mtime[chunk[i]], TRUE,
                        <<RawWeight(1, 5)>>, FALSE)]

(***************************************************************************)
(* steam: the pure parts of getTagList, getSteamApps, getSteamAppDetails.  *)
(***************************************************************************)
\* getTagList: the value returned for a response
TagListOf(answer) ==
    [tags |-> IF answer.hasTags
              THEN Map(answer.tags, LAMBDA t : [id |-> t.tagid, name |-> t.name])
              ELSE <<>>,
     tagHash |-> answer.version_hash]

\* data.response?.apps ?? []
PageApps(answer) == IF answer.hasApps THEN answer.apps ELSE <<>>

\* data.response?.apps?.length === 0
PageIsEmpty(answer) == answer.hasApps /\ Len(answer.apps) = 0

\* the value returned by the empty-page exit
EmptyListing(g) == [apps |-> <<>>, time |-> g.lastTime]

\* the value returned after the loop
Listing(collected, g) ==
    [apps |-> Map(collected, LAMBDA a : [appId |-> a.appid, name |-> a.name]),
     time |-> g.time]

\* mutant: the end of the slice is included
SliceInclusive(s, from, to) == SubSeq(s, from + 1, Min(to + 1, Len(s)))

\* Array.prototype.slice(from, to), 0-based, `to` excluded and clamped
Slice(s, from, to) == SubSeq(s, from + 1, Min(to, Len(s)))

\* for (let i = 0; i < appIds.length; i += 250) chunks.push(appIds.slice(i, i + 250))
RECURSIVE ChunksFrom(_, _)
ChunksFrom(appIds, i) ==
    IF i < Len(appIds)
    THEN <<Slice(appIds, i, i + ChunkSize)>> \o ChunksFrom(appIds, i + ChunkSize)
    ELSE <<>>

Chunks(appIds) == ChunksFrom(appIds, 0)

\* store_items.filter(item => !item.unvailable_for_country_restriction)
Available(items) ==
    FilterSeq(items, LAMBDA it : ~it.unvailable_for_country_restriction)

\* the map of the return statement of getSteamAppDetails; color and
\* playerCount are not set, so insertOrUpdateApps reads them as undefined
DetailOf(item) ==
    [appId |-> item.appid, name |-> item.name, description |-> item.full_description,
     tags |-> IF item.hasTags
              THEN Map(item.tags, LAMBDA t : [id |-> t.tagid, weight |-> t.weight])
              ELSE <<>>,
     color |-> Null, playerCount |-> Undef]

Details(items) == Map(items, DetailOf)

(***************************************************************************)
(* database: the statements of insertOrUpdateTags and insertOrUpdateApps   *)
(* and the constraints of the schema.                                      *)
(***************************************************************************)
\* INSERT INTO tags ... ON CONFLICT (tag_id) DO UPDATE: is rejected when two
\* rows of the statement have the same tag_id, or a name is NULL
TagsStatementValid(batch) ==
    /\ NoDuplicates(Map(batch, LAMBDA t : t.id))
    /\ \A i \in 1..Len(batch) : batch[i].name # Null

\* mutant: ON CONFLICT (tag_id) DO NOTHING
UpsertTagsDoNothing(tbl, batch) ==
    tbl @@ Index(batch, LAMBDA t : t.id, LAMBDA t : t.name)

UpsertTags(tbl, batch) ==
    Index(batch, LAMBDA t : t.id, LAMBDA t : t.name) @@ tbl

\* INSERT INTO app ... ON CONFLICT (app_id) DO UPDATE
AppStatementValid(batch) == NoDuplicates(Map(batch, LAMBDA a : a.appId))

AppRow(a) ==
    [name |-> a.name, description |-> a.description, color |-> a.color,
     player_count |-> a.playerCount]

UpsertApp(tbl, batch) ==
    Index(batch, LAMBDA a : a.appId, AppRow) @@ tbl

\* the three arrays of tagsQuery, row by row
WeightRows(batch) ==
    FlatMap(batch, LAMBDA a :
        Map(a.tags, LAMBDA t : [app_id |-> a.appId, tag_id |-> t.id, weight |-> t.weight]))

\* mutant: tag_id without REFERENCES tags(tag_id)
WeightStatementValidNoTagKey(rows, appTbl, tagsTbl) ==
    /\ NoDuplicates(Map(rows, LAMBDA r : <<r.app_id, r.tag_id>>))
    /\ \A i \in 1..Len(rows) :
          /\ rows[i].app_id \in DOMAIN appTbl
          /\ rows[i].weight # Undef

\* INSERT INTO app_tags ... ON CONFLICT (app_id, tag_id) DO UPDATE: app_id
\* REFERENCES app, tag_id REFERENCES tags, weight NOT NULL
WeightStatementValid(rows, appTbl, tagsTbl) ==
    /\ NoDuplicates(Map(rows, LAMBDA r : <<r.app_id, r.tag_id>>))
    /\ \A i \in 1..Len(rows) :
          /\ rows[i].app_id \in DOMAIN appTbl
          /\ rows[i].tag_id \in DOMAIN tagsTbl
          /\ rows[i].weight # Undef

\* mutant: DO UPDATE SET weight = app_tags.weight + EXCLUDED.weight
UpsertWeightsAdding(tbl, rows) ==
    LET new == Index(rows, LAMBDA r : <<r.app_id, r.tag_id>>, LAMBDA r : r.weight)
    IN  [k \in DOMAIN new \cup DOMAIN tbl |->
            IF k \in DOMAIN new
            THEN IF k \in DOMAIN tbl THEN tbl[k] + new[k] ELSE new[k]
            ELSE tbl[k]]

UpsertWeights(tbl, rows) ==
    Index(rows, LAMBDA r : <<r.app_id, r.tag_id>>, LAMBDA r : r.weight) @@ tbl

NoTx == [active |-> FALSE, app |-> EmptyTable, app_tags |-> EmptyTable]

(***************************************************************************)
(* database: getNodes.  The result is a set: the order of the rows and of  *)
(* the elements of json_agg is not specified.                              *)
(***************************************************************************)
\* app LEFT JOIN app_tags LEFT JOIN tags, the rows of one app: one row per
\* weight row of the app, and one row of NULLs when it has none
JoinedRows(a, weightTbl, tagsTbl) ==
    LET own == {k \in DOMAIN weightTbl : k[1] = a} IN
    IF own = {}
    THEN {[tag_id |-> Undef, name |-> Null, weight |-> Undef]}
    ELSE {[tag_id |-> IF k[2] \in DOMAIN tagsTbl THEN k[2] ELSE Undef,
           name   |-> IF k[2] \in DOMAIN tagsTbl THEN tagsTbl[k[2]] ELSE Null,
           weight |-> weightTbl[k]] : k \in own}

\* json_agg(json_build_object('id', tags.tag_id, 'name', tags.name, 'weight',
\* app_tags.weight)): one object per row of the group, SQL NULL only for a
\* group without rows
JsonAgg(rows) ==
    [isNull |-> rows = {},
     items  |-> {[id |-> r.tag_id, name |-> r.name, weight |-> r.weight] : r \in rows}]

\* row.tags ?? []
TagsOrEmpty(agg) == IF agg.isNull THEN {} ELSE agg.items

\* one row of the query (GROUP BY app.app_id), mapped by response.rows.map
NodeOf(a, appTbl, weightTbl, tagsTbl) ==
    [id |-> a, name |-> appTbl[a].name, description |-> appTbl[a].description,
     color |-> appTbl[a].color, playerCount |-> appTbl[a].player_count,
     tags |-> TagsOrEmpty(JsonAgg(JoinedRows(a, weightTbl, tagsTbl)))]

\* getNodes: the mapped rows, [] when the query throws
GetNodesResult(appTbl, weightTbl, tagsTbl, queryOk) ==
    IF queryOk
    THEN {NodeOf(a, appTbl, weightTbl, tagsTbl) : a \in DOMAIN appTbl}
    ELSE {}

(***************************************************************************)
(* History.                                                                *)
(***************************************************************************)
Persisted == [dataJson |-> dataJson, tags |-> tags, app |-> app, app_tags |-> app_tags]

EmptyLog ==
    [tagCount    |-> Undef,    \* number of tags the GetTagList answer carried
     pageReqs    |-> <<>>,     \* if_modified_since, last_appid of the GetAppList requests
     pages       |-> <<>>,     \* the pages received
     chunkReqs   |-> <<>>,     \* the id lists of the GetItems requests
     chunkModes  |-> <<>>,     \* how the remote answered each of them
     writerCalls |-> <<>>,     \* Store Writer calls begun: "tags", "apps"
     writerRets  |-> <<>>,     \* what they returned
     forced      |-> FALSE,    \* the database failed on a statement that breaks no constraint
     saves       |-> <<>>,     \* the setDataJson calls: what happened, what the caller saw
     tagsEnd     |-> "none",   \* how syncSteamTags ended
     appsEnd     |-> "none"]   \* how syncSteamApps ended

\* history of the last crash: the pass it stopped, the feed that had fetched
\* and not yet saved its watermark, the ids that feed had fetched
NoCrash == [feed |-> "none", pass |-> 0, ids |-> {}]

\* the number of tags an answer of GetTagList carries
TagsCarried(answer) == IF answer.hasTags THEN Len(answer.tags) ELSE 0

NoLocals ==
    [data |-> EmptyData,
     tagList |-> [tags |-> <<>>, tagHash |-> Undef],
     appList |-> [apps |-> <<>>, time |-> Undef],
     gsa |-> [lastTime |-> 0, lastAppId |-> 0, apps |-> <<>>, time |-> 0],
     gsd |-> [appIds |-> <<>>, chunks |-> <<>>, next |-> 1, apps |-> <<>>]]

(***************************************************************************)
(* jobs: syncWithSteam and syncSteamTags.                                  *)
(***************************************************************************)
\* the process is started again once its pass has ended (explored for the
\* short catalogue)
Restart ==
    /\ caller = "pass"
    /\ catalog \in {"short", "live"}
    /\ pc \in {"done", "rejected", "exited", "crashed"}
    /\ passes < MaxPasses
    /\ pc' = "idle"
    /\ UNCHANGED <<remote, nodes, caller, catalog, passes, clock, dataJson, tags, app, app_tags, data,
                   tagList, appList, appDetails, gsa, gsd, tx, log, snap>>

\* what the runtime does with a promise that rejects and has no handler:
\* Node.js 15 and later raise it as an uncaught exception and the process
\* exits with code 1 ("throw"); earlier versions, or a process started with
\* --unhandled-rejections=warn, print a warning and go on ("warn")
UnhandledRejections == {"throw", "warn"}

\* init: (async () => { await jobs.syncWithSteam(); })() is not awaited and
\* has no catch, so a rejection of syncWithSteam is an unhandled rejection
LauncherRejected ==
    /\ caller = "pass"
    /\ pc = "failed"
    /\ \E mode \in UnhandledRejections :
          pc' = IF mode = "throw" THEN "exited" ELSE "rejected"
    /\ UNCHANGED <<remote, nodes, caller, catalog, passes, clock, dataJson, tags, app, app_tags, data,
                   tagList, appList, appDetails, gsa, gsd, tx, log, snap>>

\* mutant: the catalogue feed is started first
FirstFeedApps == "apps_read"

\* syncWithSteam: await syncSteamTags() comes first
FirstFeed == "tags_read"

\* the positions inside syncSteamTags and inside syncSteamApps
TagsPcs == {"tags_read", "tags_fetch", "tags_write", "tags_save"}
AppsPcs == {"apps_read", "apps_page", "apps_details", "apps_begin", "apps_app_query",
            "apps_tags_query", "apps_commit", "apps_save"}

\* mutant: the pass is launched again by a timer while the process runs
LaunchesOnTimer(p) == p # "exited"

\* init: the pass is launched by the one call of init at the start of the
\* process ("Should only be called once at the start of the application");
\* nothing else in the program calls syncWithSteam
Launches(p) == p = "idle"

\* a pass is running or its failure is not yet dealt with
InFlight == pc \in TagsPcs \cup AppsPcs \cup {"failed"}

\* init starts the one pass of a process
SyncWithSteam ==
    /\ caller = "pass"
    /\ Launches(pc)
    /\ passes' = passes + 1
    /\ pc' = FirstFeed
    /\ log' = EmptyLog
    /\ snap' = [snap EXCEPT !.pass = Persisted, !.feed = Persisted, !.call = Persisted]
    /\ data' = NoLocals.data
    /\ tagList' = NoLocals.tagList
    /\ appList' = NoLocals.appList
    /\ appDetails' = <<>>
    /\ gsa' = NoLocals.gsa
    /\ gsd' = NoLocals.gsd
    /\ UNCHANGED <<remote, nodes, caller, catalog, clock, dataJson, tags, app, app_tags, tx>>

\* syncSteamTags: let data = await getDataJson()
TagsGetDataJson ==
    /\ pc = "tags_read"
    /\ \E readOk \in BOOLEAN : data' = GetDataJson(readOk)
    /\ snap' = [snap EXCEPT !.feed = Persisted]
    /\ pc' = "tags_fetch"
    /\ UNCHANGED <<remote, nodes, caller, catalog, passes, clock, dataJson, tags, app, app_tags, tagList,
                   appList, appDetails, gsa, gsd, tx, log>>

\* the hash syncSteamTags sends: getTagList(data.lastTagHash) or getTagList()
TagHashSent(d) == IF Truthy(d.lastTagHash) THEN d.lastTagHash ELSE 0

\* the answers GetTagList may give to a request
TagAnswersFor(have_version_hash) ==
    IF catalog = "live" THEN {LiveTagAnswer(have_version_hash)} ELSE TagAnswers

\* mutant: the empty tag list is not tested for
NoNewTagsNever(l) == FALSE

\* tagList.tags?.length === 0
NoNewTags(l) == Len(l.tags) = 0

\* syncSteamTags: tagList = await steam.getTagList(...); the empty-list return
TagsGetTagList ==
    /\ pc = "tags_fetch"
    /\ \E answer \in TagAnswersFor(TagHashSent(data)) \cup FailedAnswers :
          IF ~answer.ok
          THEN \* getTagList throws, syncSteamTags and syncWithSteam reject
               /\ pc' = "failed"
               /\ log' = [log EXCEPT !.tagsEnd = "threw"]
               /\ UNCHANGED <<tagList, data>>
          ELSE IF NoNewTags(TagListOf(answer))
          THEN /\ pc' = "apps_read"
               /\ log' = [log EXCEPT !.tagCount = TagsCarried(answer),
                                     !.tagsEnd = "empty"]
               /\ tagList' = NoLocals.tagList
               /\ data' = NoLocals.data
          ELSE /\ pc' = "tags_write"
               /\ log' = [log EXCEPT !.tagCount = TagsCarried(answer)]
               /\ tagList' = TagListOf(answer)
               /\ UNCHANGED data
    /\ UNCHANGED <<remote, nodes, caller, catalog, passes, clock, dataJson, tags, app, app_tags,
                   appList, appDetails, gsa, gsd, tx, snap>>

\* insertOrUpdateTags: one statement, true when it succeeds and false when
\* pool.query throws
InsertOrUpdateTagsOk(batch, stmtOk) == stmtOk /\ TagsStatementValid(batch)

\* mutant: the result of insertOrUpdateTags is not tested
TagsGoOnAlways(ok) == TRUE

\* syncSteamTags: if (!(await db.insertOrUpdateTags(tagList.tags))) return;
\* whether the function goes on to advance the watermark
TagsGoOn(ok) == ok

\* syncSteamTags: the call of insertOrUpdateTags; data.lastTagHash = tagList.tagHash
TagsInsertOrUpdate ==
    /\ pc = "tags_write"
    /\ \E stmtOk \in BOOLEAN :
          LET ok == InsertOrUpdateTagsOk(tagList.tags, stmtOk)
              called == [log EXCEPT !.writerCalls = Append(@, "tags"),
                                    !.writerRets = Append(@, ok),
                                    !.forced = @ \/ ~stmtOk]
          IN
          /\ tags' = IF ok THEN UpsertTags(tags, tagList.tags) ELSE tags
          /\ IF TagsGoOn(ok)
             THEN /\ data' = [data EXCEPT !.lastTagHash = tagList.tagHash]
                  /\ pc' = "tags_save"
                  /\ log' = called
                  /\ UNCHANGED tagList
             ELSE /\ data' = NoLocals.data
                  /\ tagList' = NoLocals.tagList
                  /\ pc' = "apps_read"
                  /\ log' = [called EXCEPT !.tagsEnd = "writefail"]
    /\ UNCHANGED <<remote, nodes, caller, catalog, passes, clock, dataJson, app, app_tags,
                   appList, appDetails, gsa, gsd, tx, snap>>

\* syncSteamTags: await setDataJson(data)
TagsSetDataJson ==
    /\ pc = "tags_save"
    /\ \E writeOk \in BOOLEAN :
          /\ dataJson' = SetDataJson(data, writeOk)
          /\ log' = [log EXCEPT !.tagsEnd = IF writeOk THEN "saved" ELSE "savefail",
                                !.saves = Append(@, Saved("tags", writeOk))]
    /\ pc' = "apps_read"
    /\ data' = NoLocals.data
    /\ tagList' = NoLocals.tagList
    /\ UNCHANGED <<remote, nodes, caller, catalog, passes, clock, tags, app, app_tags,
                   appList, appDetails, gsa, gsd, tx, snap>>

(***************************************************************************)
(* steam: getSteamApps, one iteration of its loop per page.                *)
(***************************************************************************)
\* the time syncSteamApps sends: getSteamApps(data.lastAppTime) or getSteamApps()
SinceSent(d) == IF Truthy(d.lastAppTime) THEN d.lastAppTime ELSE 0

\* getSteamApps up to its first request: moreResults, lastAppId, apps, time
EnterGetSteamApps(lastTime, now) ==
    [lastTime |-> lastTime, lastAppId |-> 0, apps |-> <<>>, time |-> now]

\* one iteration of while (moreResults) on an answered request
GetSteamAppsStep(g, answer) ==
    LET collected == g.apps \o PageApps(answer) IN
    IF PageIsEmpty(answer)
    THEN [done |-> TRUE, g |-> [g EXCEPT !.apps = collected],
          result |-> EmptyListing(g)]
    ELSE IF answer.have_more_results
    THEN [done |-> FALSE,
          g |-> [g EXCEPT !.apps = collected, !.lastAppId = answer.last_appid],
          result |-> EmptyListing(g)]
    ELSE [done |-> TRUE, g |-> [g EXCEPT !.apps = collected],
          result |-> Listing(collected, g)]

\* mutant: the watermark is the time of the save, not the time of the fetch
CursorAtSave(l) == clock

\* data.lastAppTime = appList.time
CursorOf(l) == l.time

\* mutant: the empty listing is not tested for
NoNewAppsNever(l) == FALSE

\* appList.apps?.length === 0
NoNewApps(l) == Len(l.apps) = 0

\* getSteamAppDetails up to its first request: the chunks
EnterGetSteamAppDetails(appIds) ==
    [appIds |-> appIds, chunks |-> Chunks(appIds), next |-> 1, apps |-> <<>>]

\* syncSteamApps: let data = await getDataJson(); the call of getSteamApps
AppsGetDataJson ==
    /\ pc = "apps_read"
    /\ \E readOk \in BOOLEAN :
          /\ data' = GetDataJson(readOk)
          /\ gsa' = EnterGetSteamApps(SinceSent(data'), clock)
    /\ clock' = clock + 1
    /\ snap' = [snap EXCEPT !.feed = Persisted]
    /\ pc' = "apps_page"
    /\ UNCHANGED <<remote, nodes, caller, catalog, passes, dataJson, tags, app, app_tags, tagList,
                   appList, appDetails, gsd, tx, log>>

\* getSteamApps: one GetAppList request and what follows its answer; on
\* return, syncSteamApps tests for the empty list and calls getSteamAppDetails
GetSteamAppsPage ==
    /\ pc = "apps_page"
    /\ \E answer \in PageAnswers \cup FailedAnswers :
          LET req == [if_modified_since |-> gsa.lastTime, last_appid |-> gsa.lastAppId]
              sent == [log EXCEPT !.pageReqs = Append(@, req),
                                  !.pages = Append(@, answer)]
          IN
          IF ~answer.ok
          THEN \* getSteamApps throws, syncSteamApps and syncWithSteam reject
               /\ pc' = "failed"
               /\ log' = [sent EXCEPT !.appsEnd = "threw"]
               /\ UNCHANGED <<gsa, appList, gsd>>
          ELSE LET step == GetSteamAppsStep(gsa, answer) IN
               /\ answer.have_more_results => Len(log.pageReqs) + 1 < MaxPages
               /\ gsa' = step.g
               /\ IF ~step.done
                  THEN /\ pc' = "apps_page"
                       /\ log' = sent
                       /\ UNCHANGED <<appList, gsd>>
                  ELSE /\ appList' = step.result
                       /\ IF NoNewApps(step.result)
                          THEN /\ pc' = "done"
                               /\ log' = [sent EXCEPT !.appsEnd = "empty"]
                               /\ UNCHANGED gsd
                          ELSE /\ pc' = "apps_details"
                               /\ log' = sent
                               /\ gsd' = EnterGetSteamAppDetails(
                                             Map(step.result.apps, LAMBDA a : a.appId))
    /\ UNCHANGED <<remote, nodes, caller, catalog, passes, clock, dataJson, tags, app, app_tags, data,
                   tagList, appDetails, tx, snap>>

(***************************************************************************)
(* steam: getSteamAppDetails, one iteration of its loop per chunk.         *)
(***************************************************************************)
\* apps.push(...store_items.filter(...)) for the answer to one chunk
GetSteamAppDetailsStep(d, items) ==
    [d EXCEPT !.apps = @ \o Available(items), !.next = @ + 1]

\* a direct call of getSteamAppDetails(appIds)
GetSteamAppDetailsCall ==
    /\ caller = "details"
    /\ pc = "details_call"
    /\ gsd' = EnterGetSteamAppDetails(gsd.appIds)
    /\ pc' = "apps_details"
    /\ UNCHANGED <<remote, nodes, caller, catalog, passes, clock, dataJson, tags, app, app_tags, data,
                   tagList, appList, appDetails, gsa, tx, log, snap>>

\* getSteamAppDetails: one GetItems request and what follows its answer
GetSteamAppDetailsChunk ==
    /\ pc = "apps_details"
    /\ gsd.next <= Len(gsd.chunks)
    /\ \E mode \in DetailModes \cup FailedModes :
          LET chunk == gsd.chunks[gsd.next]
              sent == [log EXCEPT !.chunkReqs = Append(@, chunk),
                                  !.chunkModes = Append(@, mode)]
          IN
          IF mode = "fail"
          THEN \* getSteamAppDetails throws, its callers reject
               /\ pc' = IF caller = "pass" THEN "failed" ELSE "threw"
               /\ log' = [sent EXCEPT !.appsEnd = "threw"]
               /\ UNCHANGED gsd
          ELSE /\ gsd' = GetSteamAppDetailsStep(gsd, StoreItems(chunk, mode))
               /\ log' = sent
               /\ pc' = "apps_details"
    /\ UNCHANGED <<remote, nodes, caller, catalog, passes, clock, dataJson, tags, app, app_tags, data,
                   tagList, appList, appDetails, gsa, tx, snap>>

\* getSteamAppDetails: return apps.map(...) once every chunk is answered
GetSteamAppDetailsReturn ==
    /\ pc = "apps_details"
    /\ gsd.next > Len(gsd.chunks)
    /\ appDetails' = Details(gsd.apps)
    /\ pc' = IF caller = "pass" THEN "apps_begin" ELSE "returned"
    /\ UNCHANGED <<remote, nodes, caller, catalog, passes, clock, dataJson, tags, app, app_tags, data,
                   tagList, appList, gsa, gsd, tx, log, snap>>

(***************************************************************************)
(* database: insertOrUpdateApps, one step per statement; jobs: the rest of *)
(* syncSteamApps.                                                          *)
(***************************************************************************)
\* syncSteamApps: if (!(await db.insertOrUpdateApps(appDetails))) return;
\* whether the function goes on to advance the watermark
AppsGoOn(ok) == ok

\* what follows the return of insertOrUpdateApps; stmtOk: the database
\* carried out the statement sent last
AfterInsertOrUpdateApps(ok, stmtOk) ==
    /\ log' = [log EXCEPT !.writerRets = Append(@, ok),
                          !.forced = @ \/ ~stmtOk,
                          !.appsEnd = IF caller = "pass" /\ ~AppsGoOn(ok)
                                      THEN "writefail" ELSE @]
    /\ IF caller = "pass"
       THEN \* data.lastAppTime = appList.time
            /\ pc' = IF AppsGoOn(ok) THEN "apps_save" ELSE "done"
            /\ data' = IF AppsGoOn(ok) THEN [data EXCEPT !.lastAppTime = CursorOf(appList)]
                       ELSE data
       ELSE /\ pc' = IF Len(log.writerRets) = 0 THEN "between" ELSE "returned"
            /\ data' = data

\* pool.connect(); BEGIN
InsertOrUpdateAppsBegin ==
    /\ pc = "apps_begin"
    /\ tx' = [active |-> TRUE, app |-> app, app_tags |-> app_tags]
    /\ log' = [log EXCEPT !.writerCalls = Append(@, "apps")]
    /\ snap' = [snap EXCEPT !.call = Persisted]
    /\ pc' = "apps_app_query"
    /\ UNCHANGED <<remote, nodes, caller, catalog, passes, clock, dataJson, tags, app, app_tags, data,
                   tagList, appList, appDetails, gsa, gsd>>

\* client.query(appQuery, ...); on an error ROLLBACK and return false
InsertOrUpdateAppsAppQuery ==
    /\ pc = "apps_app_query"
    /\ \E stmtOk \in BOOLEAN :
          IF stmtOk /\ AppStatementValid(appDetails)
          THEN /\ tx' = [tx EXCEPT !.app = UpsertApp(@, appDetails)]
               /\ pc' = "apps_tags_query"
               /\ UNCHANGED <<log, data>>
          ELSE /\ tx' = NoTx
               /\ AfterInsertOrUpdateApps(FALSE, stmtOk)
    /\ UNCHANGED <<remote, nodes, caller, catalog, passes, clock, dataJson, tags, app, app_tags,
                   tagList, appList, appDetails, gsa, gsd, snap>>

\* client.query(tagsQuery, ...); on an error ROLLBACK and return false
InsertOrUpdateAppsTagsQuery ==
    /\ pc = "apps_tags_query"
    /\ \E stmtOk \in BOOLEAN :
          LET rows == WeightRows(appDetails) IN
          IF stmtOk /\ WeightStatementValid(rows, tx.app, tags)
          THEN /\ tx' = [tx EXCEPT !.app_tags = UpsertWeights(@, rows)]
               /\ pc' = "apps_commit"
               /\ UNCHANGED <<log, data>>
          ELSE /\ tx' = NoTx
               /\ AfterInsertOrUpdateApps(FALSE, stmtOk)
    /\ UNCHANGED <<remote, nodes, caller, catalog, passes, clock, dataJson, tags, app, app_tags,
                   tagList, appList, appDetails, gsa, gsd, snap>>

\* mutant: the statements run outside the transaction, ROLLBACK undoes nothing
CommittedAlways(t, ok) == [app |-> t.app, app_tags |-> t.app_tags]

\* the tables once the transaction ends
Committed(t, ok) ==
    [app |-> IF ok THEN t.app ELSE app, app_tags |-> IF ok THEN t.app_tags ELSE app_tags]

\* client.query('COMMIT') and return true; on an error ROLLBACK and return false
InsertOrUpdateAppsCommit ==
    /\ pc = "apps_commit"
    /\ \E stmtOk \in BOOLEAN :
          /\ app' = Committed(tx, stmtOk).app
          /\ app_tags' = Committed(tx, stmtOk).app_tags
          /\ AfterInsertOrUpdateApps(stmtOk, stmtOk)
    /\ tx' = NoTx
    /\ UNCHANGED <<remote, nodes, caller, catalog, passes, clock, dataJson, tags,
                   tagList, appList, appDetails, gsa, gsd, snap>>

\* syncSteamApps: await setDataJson(data)
AppsSetDataJson ==
    /\ pc = "apps_save"
    /\ \E writeOk \in BOOLEAN :
          /\ dataJson' = SetDataJson(data, writeOk)
          /\ log' = [log EXCEPT !.appsEnd = IF writeOk THEN "saved" ELSE "savefail",
                                !.saves = Append(@, Saved("apps", writeOk))]
    /\ pc' = "done"
    /\ UNCHANGED <<remote, nodes, caller, catalog, passes, clock, tags, app, app_tags, data, tagList,
                   appList, appDetails, gsa, gsd, tx, snap>>

\* a second direct call of insertOrUpdateApps with the same batch
InsertOrUpdateAppsAgain ==
    /\ caller = "upsert"
    /\ pc = "between"
    /\ snap' = [snap EXCEPT !.feed = Persisted]
    /\ pc' = "apps_begin"
    /\ UNCHANGED <<remote, nodes, caller, catalog, passes, clock, dataJson, tags, app, app_tags, data,
                   tagList, appList, appDetails, gsa, gsd, tx, log>>

\* the feed that has fetched and not yet saved its watermark when the pass
\* is at p: syncSteamTags between getTagList and setDataJson, syncSteamApps
\* between getSteamApps and setDataJson
FetchedNotSaved(p) ==
    IF p \in {"tags_write", "tags_save"} THEN "tags"
    ELSE IF p \in AppsPcs \ {"apps_read", "apps_page"} THEN "apps"
    ELSE "none"

\* the process stops while its pass runs (killed, power loss): the pass does
\* nothing more and the database rolls the open transaction back
Crash ==
    /\ caller = "pass"
    /\ pc \in TagsPcs \cup AppsPcs
    /\ pc' = "crashed"
    /\ tx' = NoTx
    /\ snap' = [snap EXCEPT !.crash =
                    [feed |-> FetchedNotSaved(pc), pass |-> passes,
                     ids |-> IF FetchedNotSaved(pc) = "tags"
                             THEN {tagList.tags[i].id : i \in DOMAIN tagList.tags}
                             ELSE IF FetchedNotSaved(pc) = "apps"
                             THEN {appList.apps[i].appId : i \in DOMAIN appList.apps}
                             ELSE {}]]
    /\ UNCHANGED <<remote, nodes, caller, catalog, passes, clock, dataJson, tags, app,
                   app_tags, data, tagList, appList, appDetails, gsa, gsd, log>>

\* the live remote modifies one of its apps: between two passes, or while
\* getSteamApps and getSteamAppDetails run (the other steps of a pass send
\* the remote nothing, a modification during them is one after the pass)
RemoteUpdate ==
    /\ catalog = "live"
    /\ remote.updates < MaxUpdates
    /\ pc \in {"apps_page", "apps_details", "done", "crashed"}
    /\ \E id \in LiveIds :
          remote' = [mtime |-> [remote.mtime EXCEPT ![id] = clock],
                     updates |-> remote.updates + 1,
                     midFetch |-> pc \in {"apps_page", "apps_details"}]
    /\ clock' = clock + 1
    /\ UNCHANGED <<nodes, caller, catalog, passes, pc, dataJson, tags, app, app_tags, data,
                   tagList, appList, appDetails, gsa, gsd, tx, log, snap>>

\* a call of getNodes by the presentation layer
GetNodes ==
    /\ caller = "nodes"
    /\ pc = "nodes_call"
    /\ \E queryOk \in BOOLEAN :
          /\ nodes' = GetNodesResult(app, app_tags, tags, queryOk)
          /\ pc' = IF queryOk THEN "nodes_returned" ELSE "nodes_failed"
    /\ UNCHANGED <<remote, caller, catalog, passes, clock, dataJson, tags, app, app_tags,
                   data, tagList, appList, appDetails, gsa, gsd, tx, log, snap>>

(***************************************************************************)
(* Specifications.                                                         *)
(***************************************************************************)
\* a fresh installation: no data.json, empty tables, no pass started
Init ==
    /\ pc = "idle"
    /\ caller = "pass"
    /\ catalog \in {"short", "long"}
    /\ passes = 0
    /\ clock = FirstNow
    /\ dataJson = NoFile
    /\ tags = EmptyTable
    /\ app = EmptyTable
    /\ app_tags = EmptyTable
    /\ data = NoLocals.data
    /\ tagList = NoLocals.tagList
    /\ appList = NoLocals.appList
    /\ appDetails = <<>>
    /\ gsa = NoLocals.gsa
    /\ gsd = NoLocals.gsd
    /\ tx = NoTx
    /\ log = EmptyLog
    /\ snap = [pass |-> Persisted, feed |-> Persisted, call |-> Persisted,
               crash |-> NoCrash]
    /\ remote = NoRemote
    /\ nodes = {}

Next ==
    \/ Restart
    \/ SyncWithSteam
    \/ LauncherRejected
    \/ TagsGetDataJson
    \/ TagsGetTagList
    \/ TagsInsertOrUpdate
    \/ TagsSetDataJson
    \/ AppsGetDataJson
    \/ GetSteamAppsPage
    \/ GetSteamAppDetailsChunk
    \/ GetSteamAppDetailsReturn
    \/ InsertOrUpdateAppsBegin
    \/ InsertOrUpdateAppsAppQuery
    \/ InsertOrUpdateAppsTagsQuery
    \/ InsertOrUpdateAppsCommit
    \/ AppsSetDataJson

Spec == Init /\ [][Next]_vars

(***************************************************************************)
(* Passes against the live remote, with crashes of the process.            *)
(***************************************************************************)
InitLive ==
    /\ pc = "idle"
    /\ caller = "pass"
    /\ catalog = "live"
    /\ passes = 0
    /\ clock = FirstNow
    /\ dataJson = NoFile
    /\ tags = EmptyTable
    /\ app = EmptyTable
    /\ app_tags = EmptyTable
    /\ data = NoLocals.data
    /\ tagList = NoLocals.tagList
    /\ appList = NoLocals.appList
    /\ appDetails = <<>>
    /\ gsa = NoLocals.gsa
    /\ gsd = NoLocals.gsd
    /\ tx = NoTx
    /\ log = EmptyLog
    /\ snap = [pass |-> Persisted, feed |-> Persisted, call |-> Persisted,
               crash |-> NoCrash]
    /\ nodes = {}
    /\ remote = NoRemote

NextLive ==
    \/ Restart
    \/ SyncWithSteam
    \/ TagsGetDataJson
    \/ TagsGetTagList
    \/ TagsInsertOrUpdate
    \/ TagsSetDataJson
    \/ AppsGetDataJson
    \/ GetSteamAppsPage
    \/ GetSteamAppDetailsChunk
    \/ GetSteamAppDetailsReturn
    \/ InsertOrUpdateAppsBegin
    \/ InsertOrUpdateAppsAppQuery
    \/ InsertOrUpdateAppsTagsQuery
    \/ InsertOrUpdateAppsCommit
    \/ AppsSetDataJson
    \/ Crash
    \/ RemoteUpdate

SpecLive == InitLive /\ [][NextLive]_vars

(***************************************************************************)
(* getSteamAppDetails called directly, with id lists of several lengths.   *)
(***************************************************************************)
Lens ==
    {0, 1, ChunkSize - 1, ChunkSize, ChunkSize + 1, 2 * ChunkSize,
     2 * ChunkSize + 100, MaxIds}

IdLists ==
    UNION { { [i \in 1..n |-> i],               \* ascending
              [i \in 1..n |-> n + 1 - i],       \* descending
              [i \in 1..n |-> 1 + (i % 3)] } :  \* with repeated ids
            n \in Lens }

InitDetails ==
    /\ pc = "details_call"
    /\ caller = "details"
    /\ catalog = "long"
    /\ passes = 0
    /\ clock = FirstNow
    /\ dataJson = NoFile
    /\ tags = EmptyTable
    /\ app = EmptyTable
    /\ app_tags = EmptyTable
    /\ data = NoLocals.data
    /\ tagList = NoLocals.tagList
    /\ appList = NoLocals.appList
    /\ appDetails = <<>>
    /\ gsa = NoLocals.gsa
    /\ \E ids \in IdLists : gsd = [NoLocals.gsd EXCEPT !.appIds = ids]
    /\ tx = NoTx
    /\ log = EmptyLog
    /\ snap = [pass |-> Persisted, feed |-> Persisted, call |-> Persisted,
               crash |-> NoCrash]
    /\ remote = NoRemote
    /\ nodes = {}

NextDetails ==
    \/ GetSteamAppDetailsCall
    \/ GetSteamAppDetailsChunk
    \/ GetSteamAppDetailsReturn

SpecDetails == InitDetails /\ [][NextDetails]_vars

(***************************************************************************)
(* insertOrUpdateApps called directly, twice with the same batch, on       *)
(* several store contents.                                                 *)
(***************************************************************************)
TagTables ==
    { EmptyTable,
      (1 :> "Action") @@ (2 :> "RPG"),
      (1 :> "Adventure") }

\* what getSteamAppDetails can return, and batches with color and playerCount
Batches ==
    { Details(Available(StoreItems(ids, mode))) :
          ids \in {<<>>, <<10>>, <<10, 20>>, <<10, 10>>}, mode \in DetailModes }
    \cup { << [appId |-> 10, name |-> "Game C", description |-> "third",
               tags |-> <<[id |-> 2, weight |-> 4]>>, color |-> "#ff0000",
               playerCount |-> 12] >> }

\* the tables after insertOrUpdateApps(batch) on empty tables
StoreAfter(batch, tagsTbl) ==
    LET items == UpsertApp(EmptyTable, batch)
        rows == WeightRows(batch)
    IN  IF AppStatementValid(batch) /\ WeightStatementValid(rows, items, tagsTbl)
        THEN [app |-> items, app_tags |-> UpsertWeights(EmptyTable, rows)]
        ELSE [app |-> EmptyTable, app_tags |-> EmptyTable]

InitUpsert ==
    /\ pc = "apps_begin"
    /\ caller = "upsert"
    /\ catalog = "short"
    /\ passes = 0
    /\ clock = FirstNow
    /\ dataJson = NoFile
    /\ tags \in TagTables
    /\ \E before \in Batches :
          /\ app = StoreAfter(before, tags).app
          /\ app_tags = StoreAfter(before, tags).app_tags
    /\ data = NoLocals.data
    /\ tagList = NoLocals.tagList
    /\ appList = NoLocals.appList
    /\ appDetails \in Batches
    /\ gsa = NoLocals.gsa
    /\ gsd = NoLocals.gsd
    /\ tx = NoTx
    /\ log = EmptyLog
    /\ snap = [pass |-> Persisted, feed |-> Persisted, call |-> Persisted,
               crash |-> NoCrash]
    /\ remote = NoRemote
    /\ nodes = {}

NextUpsert ==
    \/ InsertOrUpdateAppsBegin
    \/ InsertOrUpdateAppsAppQuery
    \/ InsertOrUpdateAppsTagsQuery
    \/ InsertOrUpdateAppsCommit
    \/ InsertOrUpdateAppsAgain

SpecUpsert == InitUpsert /\ [][NextUpsert]_vars

(***************************************************************************)
(* getNodes called on several store contents.                              *)
(***************************************************************************)
\* the tables after insertOrUpdateApps(first) and insertOrUpdateApps(second)
StoreAfterBoth(first, second, tagsTbl) ==
    LET s == StoreAfter(first, tagsTbl)
        items == UpsertApp(s.app, second)
        rows == WeightRows(second)
    IN  IF AppStatementValid(second) /\ WeightStatementValid(rows, items, tagsTbl)
        THEN [app |-> items, app_tags |-> UpsertWeights(s.app_tags, rows)]
        ELSE s

InitNodes ==
    /\ pc = "nodes_call"
    /\ caller = "nodes"
    /\ catalog = "short"
    /\ passes = 0
    /\ clock = FirstNow
    /\ dataJson = NoFile
    /\ tags \in TagTables \cup {(1 :> "Action") @@ (2 :> "RPG") @@ (9 :> "Indie")}
    /\ \E first \in Batches, second \in Batches :
          /\ app = StoreAfterBoth(first, second, tags).app
          /\ app_tags = StoreAfterBoth(first, second, tags).app_tags
    /\ data = NoLocals.data
    /\ tagList = NoLocals.tagList
    /\ appList = NoLocals.appList
    /\ appDetails = <<>>
    /\ gsa = NoLocals.gsa
    /\ gsd = NoLocals.gsd
    /\ tx = NoTx
    /\ log = EmptyLog
    /\ snap = [pass |-> Persisted, feed |-> Persisted, call |-> Persisted,
               crash |-> NoCrash]
    /\ remote = NoRemote
    /\ nodes = {}

NextNodes ==
    \/ GetNodes

SpecNodes == InitNodes /\ [][NextNodes]_vars

(***************************************************************************)
(* Properties.                                                             *)
(***************************************************************************)
Last(s) == s[Len(s)]

TagHashStored == Parse(dataJson).lastTagHash
AppTimeStored == Parse(dataJson).lastAppTime

\* getSteamApps has returned a value in the running pass
GetSteamAppsReturned ==
    /\ log.pages # <<>>
    /\ Last(log.pages).ok
    /\ pc # "apps_page"

\* the ids the remote reported on page i
IdsOnPage(i) == IF log.pages[i].hasApps THEN log.pages[i].apps ELSE <<>>

\* the rows of a batch are in the tables, with the values of the batch
BatchStored(batch) ==
    /\ \A i \in 1..Len(batch) :
          /\ batch[i].appId \in DOMAIN app
          /\ app[batch[i].appId].name = batch[i].name
          /\ app[batch[i].appId].description = batch[i].description
          /\ \A j \in 1..Len(batch[i].tags) :
                /\ <<batch[i].appId, batch[i].tags[j].id>> \in DOMAIN app_tags
                /\ app_tags[<<batch[i].appId, batch[i].tags[j].id>>]
                       = batch[i].tags[j].weight

\* C1: a feed's persisted watermark takes a new value only in the save step
\* of that feed, after the Store Writer call of the same pass has returned
\* success, and the value is the one of the fetch whose rows are in the store.
C1_WatermarkOnlyAfterCommittedWrite ==
    [][ /\ Parse(dataJson').lastTagHash \notin {Undef, TagHashStored} =>
              /\ pc = "tags_save"
              /\ log.writerCalls = <<"tags">>
              /\ log.writerRets = <<TRUE>>
              /\ Parse(dataJson').lastTagHash = tagList.tagHash
              /\ \A i \in 1..Len(tagList.tags) :
                    /\ tagList.tags[i].id \in DOMAIN tags
                    /\ tags[tagList.tags[i].id] = tagList.tags[i].name
        /\ Parse(dataJson').lastAppTime \notin {Undef, AppTimeStored} =>
              /\ pc = "apps_save"
              /\ Len(log.writerCalls) = Len(log.writerRets)
              /\ Last(log.writerCalls) = "apps"
              /\ Last(log.writerRets) = TRUE
              /\ Parse(dataJson').lastAppTime = appList.time
              /\ BatchStored(appDetails)
      ]_vars

\* C1 witness: a pass has advanced both watermarks
C1_Witness ==
    /\ pc = "done"
    /\ log.tagsEnd = "saved"
    /\ log.appsEnd = "saved"
    /\ Truthy(TagHashStored)
    /\ Truthy(AppTimeStored)
    /\ app # EmptyTable

\* C2: when a feed fails before its write commits (a request throws, the
\* Store Writer returns false), the data.json and the tables at the end of the
\* feed are those of its start.
C2_FailedFeedLeavesNoTrace ==
    /\ (pc = "failed" /\ log.pages = <<>>) => Persisted = snap.feed
    /\ (pc = "apps_read" /\ log.writerRets = <<FALSE>>) => Persisted = snap.feed
    /\ (pc = "failed" /\ log.pages # <<>>) => Persisted = snap.feed
    /\ (/\ pc = "done"
        /\ Len(log.writerCalls) = Len(log.writerRets)
        /\ log.writerCalls # <<>>
        /\ Last(log.writerCalls) = "apps"
        /\ ~Last(log.writerRets)) => Persisted = snap.feed

\* C2 witness: the request for the second chunk failed after the first chunk
\* was answered, in a pass whose tag feed had written rows
C2_Witness ==
    /\ pc = "failed"
    /\ Len(log.chunkModes) = 2
    /\ log.chunkModes[1] = "v1"
    /\ log.chunkModes[2] = "fail"
    /\ Len(log.chunkReqs[1]) = ChunkSize
    /\ tags # EmptyTable

\* C3: a fetch that returns no entry ends the feed normally with no Store
\* Writer call, no GetItems request, and data.json and the tables unchanged.
C3_EmptyFetchIsNoOp ==
    /\ log.tagCount = 0 =>
          /\ "tags" \notin Range(log.writerCalls)
          /\ pc \notin {"tags_write", "tags_save"}
          /\ pc = "failed" => log.pages # <<>>
          /\ pc = "apps_read" => Persisted = snap.feed
    /\ (GetSteamAppsReturned /\ Len(appList.apps) = 0) =>
          /\ pc \in {"done", "idle"}
          /\ "apps" \notin Range(log.writerCalls)
          /\ log.chunkReqs = <<>>
          /\ Persisted = snap.feed

\* C3 witness: both fetches of a pass returned nothing
C3_Witness ==
    /\ pc = "done"
    /\ log.tagCount = 0
    /\ GetSteamAppsReturned
    /\ Len(appList.apps) = 0

\* C4: a failure of the tag feed (getTagList throws, insertOrUpdateTags
\* returns false, the save fails) does not keep the catalogue feed from
\* running in the same pass. (The code does not do this.)
C4_TagFeedFailureDoesNotBlockCatalogue ==
    (pc \in {"done", "failed"} /\ log.tagsEnd \in {"threw", "writefail", "savefail"})
        => log.pageReqs # <<>>

C6_EmptyFirstPageKeepsSinceTime ==
    (GetSteamAppsReturned /\ Len(IdsOnPage(1)) = 0) =>
        /\ appList.apps = <<>>
        /\ appList.time = log.pageReqs[1].if_modified_since
        /\ Len(log.pageReqs) = 1

\* C7: when the first page reports ids, getSteamApps stops only on a page
\* whose have_more_results is false, sends cursor 0 first and then the
\* last_appid of the page before, and returns the entries of all pages in
\* order. (The code does not do this when a later page has an empty apps list.)
C7_ListingConcatenatesAllPages ==
    (GetSteamAppsReturned /\ Len(IdsOnPage(1)) > 0) =>
        /\ ~Last(log.pages).have_more_results
        /\ log.pageReqs[1].last_appid = 0
        /\ \A i \in 2..Len(log.pageReqs) :
              log.pageReqs[i].last_appid = log.pages[i - 1].last_appid
        /\ Map(appList.apps, LAMBDA a : a.appId)
              = Map(Concat([i \in 1..Len(log.pages) |-> IdsOnPage(i)]),
                    LAMBDA a : a.appid)

\* what the remote sent for request j and did not flag as unavailable
Unflagged(j) ==
    SelectSeq(StoreItems(log.chunkReqs[j], log.chunkModes[j]),
              LAMBDA it : ~it.unvailable_for_country_restriction)

\* C8: getSteamAppDetails on n ids sends ceil(n / 250) requests, request j
\* with ids 250 (j - 1) + 1 .. min(250 j, n) of the input in order, and
\* returns, in the order of the requests, the items the remote did not flag.
C8_DetailsChunking ==
    pc = "returned" =>
        LET n == Len(gsd.appIds)
            calls == Len(log.chunkReqs)
        IN  /\ calls = (n + ChunkSize - 1) \div ChunkSize
            /\ \A j \in 1..calls :
                  /\ Len(log.chunkReqs[j]) = Min(ChunkSize * j, n) - ChunkSize * (j - 1)
                  /\ \A i \in 1..Len(log.chunkReqs[j]) :
                        log.chunkReqs[j][i] = gsd.appIds[ChunkSize * (j - 1) + i]
            /\ Map(appDetails, LAMBDA a : a.appId)
                  = Map(Concat([j \in 1..calls |-> Unflagged(j)]), LAMBDA it : it.appid)
            /\ \A i \in 1..Len(appDetails) : appDetails[i].name \in {"Game A", "Game B"}

\* C8 witness: 600 ids went out as 250, 250 and 100, and some were flagged
C8_Witness ==
    /\ pc = "returned"
    /\ Len(gsd.appIds) = 600
    /\ Map(log.chunkReqs, Len) = <<250, 250, 100>>
    /\ gsd.appIds[1] = 600
    /\ log.chunkModes = <<"v1", "restricted", "v2">>
    /\ Len(appDetails) = 475

\* C9 as stated: insertOrUpdateApps called twice with the same batch returns
\* true both times, for every batch, and the tables after the second call are
\* those after the first (a database that carries out every valid statement).
C9_UpsertTwiceSucceedsBothTimes ==
    (pc = "returned" /\ ~log.forced) =>
        /\ log.writerRets = <<TRUE, TRUE>>
        /\ app = snap.feed.app
        /\ app_tags = snap.feed.app_tags

\* C9 amended: when the first call returns true, the second call with the
\* same batch breaks no constraint (it returns true unless the database fails)
\* and leaves app and app_tags as they were after the first call.
C9_UpsertTwiceIsIdempotent ==
    (pc = "returned" /\ log.writerRets[1]) =>
        /\ ~log.forced => log.writerRets[2]
        /\ app = snap.feed.app
        /\ app_tags = snap.feed.app_tags

\* C9 witness: a batch with weights was stored twice over a store that held
\* other values for it
C9_Witness ==
    /\ pc = "returned"
    /\ log.writerRets = <<TRUE, TRUE>>
    /\ app_tags # EmptyTable
    /\ snap.pass.app # EmptyTable
    /\ snap.pass.app # app
    /\ snap.pass.app_tags # app_tags

\* C10: a pass in which the remote reports no tag and no updated app leaves
\* data.json and the three tables as they were when the pass began.
C10_NoChangePassIsNoOp ==
    (/\ pc = "done"
     /\ log.tagCount = 0
     /\ log.pages # <<>>
     /\ Len(IdsOnPage(1)) = 0) => Persisted = snap.pass

\* C10 witness: the second pass found nothing new after a first pass that
\* stored tags and apps and advanced both watermarks
C10_Witness ==
    /\ pc = "done"
    /\ passes = 2
    /\ log.tagCount = 0
    /\ log.pages # <<>>
    /\ Len(IdsOnPage(1)) = 0
    /\ Truthy(TagHashStored)
    /\ Truthy(AppTimeStored)
    /\ app_tags # EmptyTable

\* the ids of the GetItems requests of the running feed, in the order sent
IdsRequested == Concat(log.chunkReqs)

\* what a completed feed leaves behind: the rows of the fetch and, in
\* data.json, the value the fetch returned
TagFeedStored ==
    /\ tagList.tags # <<>>
    /\ \A i \in 1..Len(tagList.tags) :
          /\ tagList.tags[i].id \in DOMAIN tags'
          /\ tags'[tagList.tags[i].id] = tagList.tags[i].name
    /\ Parse(dataJson').lastTagHash = tagList.tagHash

AppFeedStored ==
    /\ appList.apps # <<>>
    /\ IdsRequested = Map(appList.apps, LAMBDA a : a.appId)
    /\ Map(appDetails, LAMBDA a : a.appId)
          = Map(Concat([j \in 1..Len(log.chunkReqs) |-> Unflagged(j)]),
                LAMBDA it : it.appid)
    /\ BatchStored(appDetails)'
    /\ Parse(dataJson').lastAppTime = appList.time

\* C12 as stated: after a feed whose fetch was not empty and whose Store
\* Writer call returned success, the rows of the fetch are stored and the
\* watermark in data.json is the value the fetch returned. (Not so when
\* writeFile fails: setDataJson leaves data.json as it was.)
C12_StoredAndAdvancedAfterWrite ==
    [][ /\ pc = "tags_save" => TagFeedStored
        /\ pc = "apps_save" => AppFeedStored ]_vars

\* C12: after a feed whose fetch was not empty, whose Store Writer call
\* returned success and whose setDataJson wrote data.json, the tables hold a
\* row for every fetched entry with the fetched values (every (id, name) of
\* the tag list; details requested for exactly the listed ids, every item and
\* every (item id, tag id, weight) returned unflagged) and the feed's
\* watermark in data.json is the hash / the time the fetch returned.
C12_StoredAndAdvancedAfterSave ==
    [][ /\ (pc = "tags_save" /\ log'.tagsEnd = "saved") => TagFeedStored
        /\ (pc = "apps_save" /\ log'.appsEnd = "saved") => AppFeedStored ]_vars

\* C12 witness: the taxonomy feed stored Action and RPG with hash 77, the
\* catalogue feed stored item 10 with weight 5 on tag 1 and its time
C12_Witness ==
    /\ pc = "done"
    /\ log.tagsEnd = "saved"
    /\ log.appsEnd = "saved"
    /\ tags = (1 :> "Action") @@ (2 :> "RPG")
    /\ TagHashStored = 77
    /\ 10 \in DOMAIN app
    /\ app[10].name = "Game A"
    /\ app_tags = (<<10, 1>> :> 5)
    /\ AppTimeStored = appList.time

\* C13: when setDataJson cannot write data.json, the failure is logged, the
\* feed that called it can tell the save failed (what it gets back differs
\* from what a successful save gives), the pass goes on, the feed's watermark
\* keeps its value, and the other feed runs and can advance its own.
\* (The code does not let the caller tell: setDataJson swallows the error.)
C13_FailedSaveIsSurfaced ==
    /\ \A i \in 1..Len(log.saves) :
          ~log.saves[i].written =>
              /\ log.saves[i].logged
              /\ log.saves[i].seen # SetDataJsonSettles(TRUE)
    /\ (pc = "apps_read" /\ log.tagsEnd = "savefail") =>
          dataJson = snap.feed.dataJson
    /\ (pc = "done" /\ log.appsEnd = "savefail") => dataJson = snap.feed.dataJson
    /\ (pc = "done" /\ log.tagsEnd = "savefail") => log.pageReqs # <<>>

\* C16: in a pass the taxonomy feed runs first and the catalogue feed only
\* after it has ended: while syncSteamTags runs nothing of the catalogue feed
\* has happened (no read of data.json for it, no GetAppList or GetItems
\* request, no insertOrUpdateApps call); while syncSteamApps runs the taxonomy
\* feed has returned; at most one Store Writer call is open and every request
\* sent has been answered before the next one is sent.
C16_FeedsRunOneAfterTheOther ==
    caller = "pass" =>
        /\ pc \in TagsPcs =>
              /\ log.pageReqs = <<>>
              /\ log.chunkReqs = <<>>
              /\ "apps" \notin Range(log.writerCalls)
              /\ log.appsEnd = "none"
              /\ appList = NoLocals.appList
              /\ gsa = NoLocals.gsa
        /\ pc \in AppsPcs =>
              /\ log.tagsEnd \in {"empty", "writefail", "saved", "savefail"}
              /\ tagList = NoLocals.tagList
              /\ Len(log.writerCalls) = Len(log.writerRets)
                    <=> pc \notin {"apps_app_query", "apps_tags_query", "apps_commit"}
        /\ Len(log.writerCalls) - Len(log.writerRets) \in {0, 1}
        /\ tx.active => pc \in {"apps_app_query", "apps_tags_query", "apps_commit"}
        /\ Len(log.pages) = Len(log.pageReqs)
        /\ Len(log.chunkModes) = Len(log.chunkReqs)

\* C16 witness: the catalogue write is open in a pass whose taxonomy feed
\* wrote its rows and saved its watermark before
C16_Witness ==
    /\ caller = "pass"
    /\ pc = "apps_commit"
    /\ log.tagsEnd = "saved"
    /\ log.writerCalls = <<"tags", "apps">>
    /\ log.writerRets = <<TRUE>>
    /\ Len(log.pageReqs) = 2

\* every weight row refers to a stored item and a stored tag
Referential(appTbl, weightTbl, tagsTbl) ==
    \A k \in DOMAIN weightTbl : k[1] \in DOMAIN appTbl /\ k[2] \in DOMAIN tagsTbl

\* the batch of insertOrUpdateApps carries a weight on a tag that is not stored
CarriesUnknownTag ==
    \E i \in 1..Len(appDetails) : \E j \in 1..Len(appDetails[i].tags) :
        appDetails[i].tags[j].id \notin DOMAIN tags

\* C17: in every state every app_tags row refers to an app_id of app and a
\* tag_id of tags, also inside the open transaction; a batch with a weight on
\* a tag id that is not in tags makes insertOrUpdateApps return false, leaves
\* the tables as they were before the call, and the catalogue feed ends
\* without saving its watermark.
C17_ReferentialIntegrity ==
    /\ Referential(app, app_tags, tags)
    /\ tx.active => Referential(tx.app, tx.app_tags, tags)
    /\ (caller = "pass" /\ CarriesUnknownTag) =>
          /\ pc \notin {"apps_commit", "apps_save"}
          /\ pc = "done" =>
                /\ log.appsEnd = "writefail"
                /\ Last(log.writerRets) = FALSE
                /\ Persisted = snap.feed

\* C17 witness: the weight statement was rejected for a tag id the tags
\* table, which holds other tags, does not have
C17_Witness ==
    /\ caller = "pass"
    /\ pc = "done"
    /\ CarriesUnknownTag
    /\ ~log.forced
    /\ log.appsEnd = "writefail"
    /\ tags # EmptyTable
    /\ AppStatementValid(appDetails)

\* C19: the save at the end of syncSteamApps keeps the lastTagHash that is in
\* data.json and the save at the end of syncSteamTags keeps the lastAppTime
\* that is in data.json, also when getDataJson gave the feed the empty object.
\* (The code does not do this: the feed writes back the object it read.)
C19_SaveKeepsOtherWatermark ==
    [][ /\ pc = "apps_save" =>
              Parse(dataJson').lastTagHash = Parse(dataJson).lastTagHash
        /\ pc = "tags_save" =>
              Parse(dataJson').lastAppTime = Parse(dataJson).lastAppTime ]_vars

\* C18: a failure of the background pass (a remote call throws and the
\* rejection leaves syncWithSteam) ends only the pass: the process that
\* serves requests does not end, no request is sent after the failed one, and
\* the tables and data.json are those the failing feed found. (The code does
\* not do this: the rejection has no handler and the runtime ends the process.)
C18_PassFailureEndsOnlyThePass ==
    /\ pc # "exited"
    /\ pc \in {"failed", "rejected", "exited"} =>
          /\ Persisted = snap.feed
          /\ \A i \in 1..Len(log.pages) : ~log.pages[i].ok => i = Len(log.pages)
          /\ \A j \in 1..Len(log.chunkModes) :
                log.chunkModes[j] = "fail" => j = Len(log.chunkModes)

WeightsOf(a) ==
    {[id |-> k[2], name |-> tags[k[2]], weight |-> app_tags[k]] :
        k \in {x \in DOMAIN app_tags : x[1] = a}}

\* C15: getNodes returns every item of app exactly once, each with exactly
\* one {id, name, weight} element per weight row of the item, and with the
\* empty list when the item has no weight row. (The code does not do this for
\* an item without weight rows.)
C15_GetNodesListsEveryItemWithItsTags ==
    pc = "nodes_returned" =>
        /\ \A n \in nodes : n.id \in DOMAIN app
        /\ \A a \in DOMAIN app :
              /\ Cardinality({n \in nodes : n.id = a}) = 1
              /\ \A n \in nodes : n.id = a => n.tags = WeightsOf(a)

\* the ids of the apps a listing carries
Listed(l) == {l.apps[i].appId : i \in DOMAIN l.apps}

\* the store holds app id as the remote has it since its last modification
StoredFresh(id) == id \in DOMAIN app /\ app[id].description = remote.mtime[id]

\* C20: no modification of the remote is missed.  The time that becomes the
\* watermark is read before the first page is requested; a pass that has
\* written the store has received and stored every app modified between the
\* time it sent and the time it read; and every app modified before the
\* persisted watermark is in the store as of that modification, so what was
\* modified while a pass fetched, at or after the time it read, is left for a
\* later incremental pass, which receives it.
C20_NoRemoteUpdateMissed ==
    /\ pc = "apps_page" => gsa.time # Undef /\ gsa.time < clock
    /\ pc = "done" /\ log.appsEnd \in {"saved", "savefail"} =>
          \A id \in LiveIds :
              /\ log.pageReqs[1].if_modified_since <= remote.mtime[id]
              /\ remote.mtime[id] < appList.time
              => id \in Listed(appList) /\ StoredFresh(id)
    /\ Truthy(AppTimeStored) =>
          \A id \in LiveIds : remote.mtime[id] < AppTimeStored => StoredFresh(id)

\* an app was modified while the first pass fetched, that pass saved the time
\* it had read before, and the second pass, incremental, received the app
C20_Witness ==
    /\ passes = 2
    /\ pc = "done"
    /\ log.appsEnd = "saved"
    /\ remote.updates = 1
    /\ remote.midFetch
    /\ log.pageReqs[1].if_modified_since > 0
    /\ \E id \in LiveIds :
          /\ remote.mtime[id] >= log.pageReqs[1].if_modified_since
          /\ remote.mtime[id] < appList.time
          /\ Listed(appList) = {id}
          /\ StoredFresh(id)

\* the pass that follows the one the last crash stopped
AfterCrashOf(feed) == snap.crash.feed = feed /\ passes = snap.crash.pass + 1

\* at a crash between a feed's fetch and its save, the watermark of that feed
\* in data.json is the one the pass started with
CrashKeepsWatermark ==
    pc = "crashed" =>
        /\ snap.crash.feed = "tags" =>
              TagHashStored = Parse(snap.pass.dataJson).lastTagHash
        /\ snap.crash.feed = "apps" =>
              AppTimeStored = Parse(snap.pass.dataJson).lastAppTime

\* the next pass sends the watermark that data.json held at the crash
NextPassSendsWatermark ==
    /\ AfterCrashOf("tags") /\ pc = "tags_fetch" =>
          TagHashSent(data) = TagHashSent(Parse(snap.pass.dataJson))
    /\ AfterCrashOf("apps") /\ log.pageReqs # <<>> =>
          log.pageReqs[1].if_modified_since = SinceSent(Parse(snap.pass.dataJson))

\* the next pass fetches again what the stopped pass had fetched, and when it
\* has written the store, the store holds it
NextPassStoresFetched ==
    /\ AfterCrashOf("tags") /\ pc \in {"tags_write", "tags_save"} =>
          snap.crash.ids \subseteq {tagList.tags[i].id : i \in DOMAIN tagList.tags}
    /\ AfterCrashOf("tags") /\ log.tagsEnd \in {"saved", "savefail"} =>
          snap.crash.ids \subseteq DOMAIN tags
    /\ AfterCrashOf("apps") /\ GetSteamAppsReturned =>
          snap.crash.ids \subseteq Listed(appList)
    /\ AfterCrashOf("apps") /\ log.appsEnd \in {"saved", "savefail"} =>
          snap.crash.ids \subseteq DOMAIN app

\* no step, a crash included, removes a row of the store
RowsKept ==
    /\ DOMAIN tags \subseteq DOMAIN tags'
    /\ DOMAIN app \subseteq DOMAIN app'
    /\ DOMAIN app_tags \subseteq DOMAIN app_tags'
    /\ pc' = "crashed" => tags' = tags /\ app' = app /\ app_tags' = app_tags

\* C11: a pass that stops between a feed's fetch and that feed's watermark
\* save leaves the watermark at its pre-pass value; the next pass sends that
\* value, fetches the data again and upserts it again, and once it has
\* written, the store holds every row the stopped pass had fetched; no row of
\* the store is lost.
C11_CrashCausesRefetchNotLoss ==
    /\ [](CrashKeepsWatermark /\ NextPassSendsWatermark /\ NextPassStoresFetched)
    /\ [][RowsKept]_vars
====
